---------------------------- MODULE Spec2Model ----------------------------
(***************************************************************************)
(* The reCAPTCHA relay: POST /verify-token of src/server.js and of the     *)
(* three other revisions of the same server (src/unnamed/part_000..002),   *)
(* with the process lifecycle (listen, SIGTERM, server.close, exit).       *)
(*                                                                         *)
(* Strings are sequences of one-character strings.  Scores are counted in  *)
(* tenths (0.5 is 5, 0.7 is 7, 1 is 10).                                   *)
(***************************************************************************)
EXTENDS Integers, Sequences, FiniteSets

(***************************************************************************)
(* JavaScript values.  Every value is a record of the same shape so that   *)
(* any two can be compared: t is the type tag, b the boolean, n the number *)
(* (in tenths), s the characters of a string or the elements of an array.  *)
(***************************************************************************)
Undefined == [t |-> "undefined", b |-> FALSE, n |-> 0, s |-> <<>>]
Null == [t |-> "null", b |-> FALSE, n |-> 0, s |-> <<>>]
Bool(x) == [t |-> "boolean", b |-> x, n |-> 0, s |-> <<>>]
Num(x) == [t |-> "number", b |-> FALSE, n |-> x, s |-> <<>>]
Str(x) == [t |-> "string", b |-> FALSE, n |-> 0, s |-> x]
Arr(x) == [t |-> "array", b |-> FALSE, n |-> 0, s |-> x]

\* ToBoolean: what `!v` and `if (v)` test.
Truthy(v) ==
  CASE v.t = "undefined" -> FALSE
    [] v.t = "null" -> FALSE
    [] v.t = "boolean" -> v.b
    [] v.t = "number" -> v.n # 0
    [] v.t = "string" -> Len(v.s) > 0
    [] OTHER -> TRUE

Digits == <<"0", "1", "2", "3", "4", "5", "6", "7", "8", "9">>
IsDigit(c) == \E i \in 1..10 : Digits[i] = c
DigitVal(c) == (CHOOSE i \in 1..10 : Digits[i] = c) - 1

RECURSIVE ParseInt(_)
ParseInt(s) ==
  IF s = <<>> THEN 0
  ELSE 10 * ParseInt(SubSeq(s, 1, Len(s) - 1)) + DigitVal(s[Len(s)])

\* ToNumber, as the relational operator applies it to its left operand:
\* nan is TRUE for NaN, n is the number in tenths.  A string that is all
\* digits is the integer it spells, the empty string is 0, any other string
\* of the model (none spells a fraction or carries white space) is NaN.
ToNumber(v) ==
  CASE v.t = "undefined" -> [nan |-> TRUE, n |-> 0]
    [] v.t = "null" -> [nan |-> FALSE, n |-> 0]
    [] v.t = "boolean" -> [nan |-> FALSE, n |-> IF v.b THEN 10 ELSE 0]
    [] v.t = "number" -> [nan |-> FALSE, n |-> v.n]
    [] v.t = "string" ->
         IF \A i \in 1..Len(v.s) : IsDigit(v.s[i])
         THEN [nan |-> FALSE, n |-> 10 * ParseInt(v.s)]
         ELSE [nan |-> TRUE, n |-> 0]
    [] OTHER -> [nan |-> TRUE, n |-> 0]

\* `v < k` for a number literal k (in tenths): false whenever v is NaN.
LessThan(v, k) == (~ToNumber(v).nan) /\ ToNumber(v).n < k

\* ToString, as a template literal and encodeURIComponent apply it.
ToString(v) ==
  CASE v.t = "string" -> v.s
    [] v.t = "undefined" -> <<"u","n","d","e","f","i","n","e","d">>
    [] v.t = "null" -> <<"n","u","l","l">>
    [] v.t = "boolean" -> IF v.b THEN <<"t","r","u","e">> ELSE <<"f","a","l","s","e">>
    [] OTHER -> <<"?">>

\* The characters encodeURIComponent leaves alone.
Unreserved ==
  {"a","b","c","d","e","f","g","h","i","j","k","l","m","n","o","p","q","r","s",
   "t","u","v","w","x","y","z","A","B","C","D","E","F","G","H","I","J","K","L",
   "M","N","O","P","Q","R","S","T","U","V","W","X","Y","Z","0","1","2","3","4",
   "5","6","7","8","9","-","_",".","!","~","*","'","(",")"}

\* The escape of a reserved ASCII character: % and its code in hexadecimal.
PercentEscape(c) ==
  CASE c = "=" -> <<"%","3","D">>
    [] c = "#" -> <<"%","2","3">>
    [] c = "/" -> <<"%","2","F">>
    [] c = "+" -> <<"%","2","B">>
    [] c = ":" -> <<"%","3","A">>
    [] c = "@" -> <<"%","4","0">>
    [] c = "%" -> <<"%","2","5">>
    [] c = "?" -> <<"%","3","F">>

RECURSIVE EncodeChars(_)
EncodeChars(s) ==
  IF s = <<>> THEN <<>>
  ELSE (IF Head(s) \in Unreserved THEN <<Head(s)>> ELSE PercentEscape(Head(s)))
       \o EncodeChars(Tail(s))

encodeURIComponent(v) == EncodeChars(ToString(v))

\* url.replace(/\/$/, ''): one trailing slash is dropped.
StripTrailingSlash(s) ==
  IF Len(s) > 0 /\ s[Len(s)] = "/" THEN SubSeq(s, 1, Len(s) - 1) ELSE s

\* url.replace(/#.*$/, ''): everything from the first # on is dropped.
StripFragment(s) ==
  IF \E i \in 1..Len(s) : s[i] = "#"
  THEN SubSeq(s, 1, (CHOOSE i \in 1..Len(s) :
                       s[i] = "#" /\ \A j \in 1..(i - 1) : s[j] # "#") - 1)
  ELSE s

\* s occurs in u as a contiguous run of characters.
Contains(u, s) ==
  \E i \in 0..(Len(u) - Len(s)) : SubSeq(u, i + 1, i + Len(s)) = s


(***************************************************************************)
(* Requests, upstream replies and responses.                               *)
(***************************************************************************)
\* A response that has not been sent has status 0.  A property whose value
\* is undefined is left out of the JSON body by res.json, so Undefined in a
\* field of a sent response means the body has no such property.
NoResponse ==
  [status |-> 0, success |-> FALSE, error |-> "", reason |-> "",
   score |-> Undefined, errors |-> Undefined, requiredScore |-> Undefined,
   redirect |-> Undefined, retry |-> Undefined]

\* response.data: a JSON object with the three properties the handlers read
\* (Undefined: the property is missing), or a body that is no object: a
\* string (kind "string") or the JSON value null (kind "null").
Data(k, su, sc, ec) == [kind |-> k, success |-> su, score |-> sc, errorCodes |-> ec]

\* Destructuring response.data throws a TypeError exactly when it is null or
\* undefined; a string has none of the properties.
DestructureThrows(data) == data.kind = "null"
Prop(data, p) == IF data.kind = "object" THEN data[p] ELSE Undefined

\* `'error-codes': errors = []`: the default applies to undefined only.
WithDefault(v, d) == IF v.t = "undefined" THEN d ELSE v

DefaultRedirect ==
  <<"h","t","t","p","s",":","/","/","d","e","f","a","u","l","t","-",
    "r","e","d","i","r","e","c","t",".","c","o","m">>

\* process.env.REDIRECT_URL || 'https://default-redirect.com'
BaseRedirect(e) ==
  IF Truthy(e.REDIRECT_URL) THEN e.REDIRECT_URL.s ELSE DefaultRedirect

MinTokenLen == 10
ThresholdServer == 5
ThresholdPart000 == 5
ThresholdPart001 == 7
ThresholdPart002 == 5

\* typeof token !== 'string' || token.length < 10
InvalidTokenFormat(token) == token.t # "string" \/ Len(token.s) < MinTokenLen

(***************************************************************************)
(* src/server.js                                                           *)
(***************************************************************************)
\* The handler up to its await: the response it returns at once, or
\* NoResponse when it goes on to call the verification service.
ValidateServer(e, b) ==
  IF InvalidTokenFormat(b.token)
  THEN [NoResponse EXCEPT !.status = 400, !.error = "Invalid token format"]
  ELSE IF ~Truthy(e.RECAPTCHA_SECRET)
  THEN [NoResponse EXCEPT !.status = 500, !.error = "Server configuration error"]
  ELSE NoResponse

CatchServer ==
  [NoResponse EXCEPT !.status = 502, !.error = "Verification service unavailable",
                     !.retry = Bool(TRUE)]

RedirectServer(e, email) ==
  IF Truthy(email)
  THEN StripTrailingSlash(BaseRedirect(e)) \o <<"/">> \o encodeURIComponent(email)
  ELSE BaseRedirect(e)

\* The handler after its await, given response.data.
DecideServer(e, b, data) ==
  IF DestructureThrows(data) THEN CatchServer
  ELSE LET success == Prop(data, "success")
           score == Prop(data, "score")
           errors == WithDefault(Prop(data, "errorCodes"), Arr(<<>>))
       IN IF ~Truthy(success) \/ LessThan(score, ThresholdServer)
          THEN [NoResponse EXCEPT
                  !.status = 403,
                  !.reason = IF Truthy(success) THEN "Low score" ELSE "Verification failed",
                  !.score = score, !.errors = errors]
          ELSE [NoResponse EXCEPT
                  !.status = 200, !.success = TRUE,
                  !.redirect = Str(RedirectServer(e, b.email)), !.score = score]

(***************************************************************************)
(* src/unnamed/part_000                                                    *)
(***************************************************************************)
ValidatePart000(e, b) ==
  IF ~Truthy(b.token) \/ ~Truthy(e.RECAPTCHA_SECRET)
  THEN [NoResponse EXCEPT
          !.status = 400,
          !.error = IF Truthy(b.token) THEN "Server misconfigured" ELSE "Token required"]
  ELSE NoResponse

CatchPart000 ==
  [NoResponse EXCEPT !.status = 500, !.error = "Verification service unavailable"]

\* This revision does not read email.
RedirectPart000(e, email) == BaseRedirect(e)

DecidePart000(e, b, data) ==
  IF DestructureThrows(data) THEN CatchPart000
  ELSE LET success == Prop(data, "success")
           score == Prop(data, "score")
           errorCodes == WithDefault(Prop(data, "errorCodes"), Arr(<<>>))
       IN IF ~Truthy(success)
          THEN [NoResponse EXCEPT
                  !.status = 403, !.reason = "reCAPTCHA verification failed",
                  !.errors = errorCodes, !.score = score]
          ELSE IF LessThan(score, ThresholdPart000)
          THEN [NoResponse EXCEPT
                  !.status = 403, !.reason = "Suspicious activity detected",
                  !.score = score]
          ELSE [NoResponse EXCEPT
                  !.status = 200, !.success = TRUE,
                  !.redirect = Str(RedirectPart000(e, b.email)), !.score = score]

(***************************************************************************)
(* src/unnamed/part_001                                                    *)
(***************************************************************************)
ValidatePart001(e, b) ==
  IF InvalidTokenFormat(b.token)
  THEN [NoResponse EXCEPT !.status = 400, !.error = "Invalid token format"]
  ELSE IF ~Truthy(e.RECAPTCHA_SECRET)
  THEN [NoResponse EXCEPT !.status = 500, !.error = "Server configuration error"]
  ELSE NoResponse

CatchPart001 ==
  [NoResponse EXCEPT !.status = 502, !.error = "Verification service unavailable",
                     !.retry = Bool(TRUE)]

RedirectPart001(e, email) ==
  IF Truthy(email)
  THEN StripFragment(BaseRedirect(e)) \o <<"#">> \o ToString(email)
  ELSE BaseRedirect(e)

DecidePart001(e, b, data) ==
  IF DestructureThrows(data) THEN CatchPart001
  ELSE LET success == Prop(data, "success")
           score == Prop(data, "score")
           errors == WithDefault(Prop(data, "errorCodes"), Arr(<<>>))
       IN IF ~Truthy(success)
          THEN [NoResponse EXCEPT
                  !.status = 403, !.reason = "reCAPTCHA verification failed",
                  !.errors = errors]
          ELSE IF LessThan(score, ThresholdPart001)
          THEN [NoResponse EXCEPT
                  !.status = 403, !.reason = "Low reCAPTCHA score (minimum: 0.7)",
                  !.score = score, !.requiredScore = Num(ThresholdPart001)]
          ELSE [NoResponse EXCEPT
                  !.status = 200, !.success = TRUE,
                  !.redirect = Str(RedirectPart001(e, b.email)), !.score = score]

(***************************************************************************)
(* src/unnamed/part_002                                                    *)
(***************************************************************************)
ValidatePart002(e, b) ==
  IF InvalidTokenFormat(b.token)
  THEN [NoResponse EXCEPT !.status = 400, !.error = "Invalid token"]
  ELSE IF ~Truthy(e.RECAPTCHA_SECRET)
  THEN [NoResponse EXCEPT !.status = 500, !.error = "Server error"]
  ELSE NoResponse

CatchPart002 ==
  [NoResponse EXCEPT !.status = 502, !.error = "Service unavailable"]

RedirectPart002(e, email) ==
  IF Truthy(email)
  THEN StripFragment(BaseRedirect(e)) \o <<"#">> \o ToString(email)
  ELSE BaseRedirect(e)

DecidePart002(e, b, data) ==
  IF DestructureThrows(data) THEN CatchPart002
  ELSE LET success == Prop(data, "success")
           score == Prop(data, "score")
       IN IF ~Truthy(success) \/ LessThan(score, ThresholdPart002)
          THEN [NoResponse EXCEPT !.status = 403, !.reason = "Verification failed"]
          ELSE [NoResponse EXCEPT
                  !.status = 200, !.success = TRUE,
                  !.redirect = Str(RedirectPart002(e, b.email)), !.score = score]

(***************************************************************************)
(* The revision that is deployed.                                          *)
(***************************************************************************)
Variants == {"server", "part_000", "part_001", "part_002"}

\* The handler after its await as it would be if it took the threshold from
\* the request: a score at or above req.body.threshold passes.
DecideClientThreshold(v, e, b, data) ==
  LET passes == /\ b.threshold.t = "number"
                /\ data.kind = "object"
                /\ ~LessThan(data.score, b.threshold.n)
      seen == IF passes THEN [data EXCEPT !.score = Num(10)] ELSE data
      answer == CASE v = "server" -> DecideServer(e, b, seen)
                  [] v = "part_000" -> DecidePart000(e, b, seen)
                  [] v = "part_001" -> DecidePart001(e, b, seen)
                  [] v = "part_002" -> DecidePart002(e, b, seen)
  IN IF answer.status = 200 THEN [answer EXCEPT !.score = data.score] ELSE answer

Validate(v, e, b) ==
  CASE v = "server" -> ValidateServer(e, b)
    [] v = "part_000" -> ValidatePart000(e, b)
    [] v = "part_001" -> ValidatePart001(e, b)
    [] v = "part_002" -> ValidatePart002(e, b)

Decide(v, e, b, data) ==
  CASE v = "server" -> DecideServer(e, b, data)
    [] v = "part_000" -> DecidePart000(e, b, data)
    [] v = "part_001" -> DecidePart001(e, b, data)
    [] v = "part_002" -> DecidePart002(e, b, data)

Catch(v) ==
  CASE v = "server" -> CatchServer
    [] v = "part_000" -> CatchPart000
    [] v = "part_001" -> CatchPart001
    [] v = "part_002" -> CatchPart002

Threshold(v) ==
  CASE v = "server" -> ThresholdServer
    [] v = "part_000" -> ThresholdPart000
    [] v = "part_001" -> ThresholdPart001
    [] v = "part_002" -> ThresholdPart002

(***************************************************************************)
(* The inputs.                                                             *)
(***************************************************************************)
MaxReq == 2
Reqs == 1..MaxReq

ShortToken == Str(<<"s","h","o","r","t">>)
NineToken == Str(<<"a","b","c","d","e","f","g","h","i">>)
TenToken == Str(<<"a","b","c","d","e","f","g","h","i","j">>)
Base64Email == Str(<<"d","G","V","z","d","A","=","=">>)

\* req.body.token: missing, a number, and strings of 0, 5, 9 and 10 characters.
Tokens == {Undefined, Num(10), Str(<<>>), ShortToken, NineToken, TenToken}
\* req.body.email: missing, empty, a base64 payload, a payload with a #.
Emails == {Undefined, Str(<<>>), Base64Email, Str(<<"a","#","b">>)}
\* A property the handlers do not read: a client that sends its own threshold.
ClientThresholds == {Undefined, Num(1)}
Bodies == [token : Tokens, email : Emails, threshold : ClientThresholds]

Secrets == {Undefined, Str(<<"k">>)}
RedirectUrls ==
  {Undefined,
   Str(<<"h","t","t","p","s",":","/","/","x",".","i","o","/">>),
   Str(<<"h","t","t","p","s",":","/","/","x",".","i","o","#","o","l","d">>)}

ErrorLists ==
  {Undefined, Arr(<<"timeout-or-duplicate">>),
   Arr(<<"invalid-input-response", "timeout-or-duplicate">>)}
Scores == {Undefined, Null, Num(4), Num(5), Num(6), Num(7)}
Successes == {Undefined, Bool(FALSE), Bool(TRUE)}
NoData == Data("none", Undefined, Undefined, Undefined)
Replies ==
  {Data("object", su, sc, ec) : su \in Successes, sc \in Scores, ec \in ErrorLists}
  \cup {Data("string", Undefined, Undefined, Undefined),
        Data("null", Undefined, Undefined, Undefined)}

\* How axios.post rejects: the timeout (ECONNABORTED), a transport failure,
\* a reply whose status is not 2xx.
Rejections == {"timeout", "network", "status"}

\* The narrower inputs of the specification with several requests in flight.
FewBodies ==
  {[token |-> ShortToken, email |-> Undefined, threshold |-> Undefined],
   [token |-> TenToken, email |-> Undefined, threshold |-> Undefined],
   [token |-> TenToken, email |-> Base64Email, threshold |-> Undefined]}
FewReplies ==
  {Data("object", Bool(TRUE), Num(7), Undefined),
   Data("object", Bool(TRUE), Num(4), Undefined),
   Data("object", Bool(FALSE), Undefined, Arr(<<"timeout-or-duplicate">>))}

(***************************************************************************)
(* The state.                                                              *)
(***************************************************************************)
VARIABLES
  variant,    \* the revision that runs
  env,        \* process.env: RECAPTCHA_SECRET and REDIRECT_URL
  pc,         \* per connection: "idle" (not opened), "queued" (request read,
              \* handler not yet run), "awaiting" (handler suspended on
              \* axios.post), "done" (response sent), "closed"
  body,       \* req.body of the connection's request
  calls,      \* outbound calls the request has made
  resp,       \* the response sent
  outcome,    \* how the outbound call settled, and response.data
  late,       \* the upstream answered after the timeout had fired
  listening,  \* the server accepts connections
  closing,    \* server.close has been called, its callback is pending
  exited,     \* process.exit has run
  atSignal    \* the requests that were in flight when SIGTERM arrived

vars ==
  <<variant, env, pc, body, calls, resp, outcome, late, listening, closing,
    exited, atSignal>>

NoBody == [token |-> Undefined, email |-> Undefined, threshold |-> Undefined]
NoOutcome == [kind |-> "none", data |-> NoData]

InitRequests ==
  /\ pc = [r \in Reqs |-> "idle"]
  /\ body = [r \in Reqs |-> NoBody]
  /\ calls = [r \in Reqs |-> 0]
  /\ resp = [r \in Reqs |-> NoResponse]
  /\ outcome = [r \in Reqs |-> NoOutcome]
  /\ late = [r \in Reqs |-> FALSE]
  /\ listening = TRUE
  /\ closing = FALSE
  /\ exited = FALSE
  /\ atSignal = {}

\* app.listen has run; the environment is whatever the deployment set.
Init ==
  /\ variant \in Variants
  /\ env \in [RECAPTCHA_SECRET : Secrets, REDIRECT_URL : {Undefined}]
  /\ InitRequests

InitHandler ==
  /\ variant \in Variants
  /\ env \in [RECAPTCHA_SECRET : Secrets, REDIRECT_URL : RedirectUrls]
  /\ InitRequests

(***************************************************************************)
(* The steps.                                                              *)
(***************************************************************************)
\* A connection is accepted and express.json has parsed its request.
\* Connections are numbered in the order they open.
Receive(r, b) ==
  /\ listening /\ ~exited
  /\ pc[r] = "idle"
  /\ \A q \in Reqs : q < r => pc[q] # "idle"
  /\ pc' = [pc EXCEPT ![r] = "queued"]
  /\ body' = [body EXCEPT ![r] = b]
  /\ UNCHANGED <<variant, env, calls, resp, outcome, late, listening, closing,
                 exited, atSignal>>

\* The handler as it would be with a call that holds the event loop until
\* the upstream has answered.
CanStartBlocking(r) ==
  pc[r] = "queued" /\ ~exited /\ \A q \in Reqs : pc[q] # "awaiting"

\* The handler is an async function: it gives the event loop back at its
\* await, so a queued request runs whatever the other requests wait for.
CanStart(r) == pc[r] = "queued" /\ ~exited

\* The handler runs up to its first return or to its await.
Start(r) ==
  /\ CanStart(r)
  /\ LET now == Validate(variant, env, body[r])
     IN IF now.status # 0
        THEN /\ resp' = [resp EXCEPT ![r] = now]
             /\ pc' = [pc EXCEPT ![r] = "done"]
             /\ calls' = calls
        ELSE /\ calls' = [calls EXCEPT ![r] = @ + 1]
             /\ pc' = [pc EXCEPT ![r] = "awaiting"]
             /\ resp' = resp
  /\ UNCHANGED <<variant, env, body, outcome, late, listening, closing, exited,
                 atSignal>>

\* axios.post resolves with a 2xx reply whose body is data; the handler
\* goes on after its await.
Fulfil(r, data) ==
  /\ pc[r] = "awaiting" /\ ~exited
  /\ resp' = [resp EXCEPT ![r] = Decide(variant, env, body[r], data)]
  /\ outcome' = [outcome EXCEPT ![r] = [kind |-> "reply", data |-> data]]
  /\ pc' = [pc EXCEPT ![r] = "done"]
  /\ UNCHANGED <<variant, env, body, calls, late, listening, closing, exited,
                 atSignal>>

\* The catch block as it would be if it called the service once more
\* before giving up.
RejectRetries(r, k) ==
  /\ pc[r] = "awaiting" /\ ~exited
  /\ IF calls[r] < 2
     THEN /\ calls' = [calls EXCEPT ![r] = @ + 1]
          /\ UNCHANGED <<pc, resp, outcome>>
     ELSE /\ resp' = [resp EXCEPT ![r] = Catch(variant)]
          /\ outcome' = [outcome EXCEPT ![r] = [kind |-> k, data |-> NoData]]
          /\ pc' = [pc EXCEPT ![r] = "done"]
          /\ calls' = calls
  /\ UNCHANGED <<variant, env, body, late, listening, closing, exited, atSignal>>

\* The catch block as it would be if it threw again: the rejection is not
\* handled and ends the process.
RejectCrashes(r, k) ==
  /\ pc[r] = "awaiting" /\ ~exited
  /\ outcome' = [outcome EXCEPT ![r] = [kind |-> k, data |-> NoData]]
  /\ exited' = TRUE
  /\ UNCHANGED <<variant, env, pc, body, calls, resp, late, listening, closing,
                 atSignal>>

\* axios.post rejects; the handler goes on in its catch block.
Reject(r, k) ==
  /\ pc[r] = "awaiting" /\ ~exited
  /\ resp' = [resp EXCEPT ![r] = Catch(variant)]
  /\ outcome' = [outcome EXCEPT ![r] = [kind |-> k, data |-> NoData]]
  /\ pc' = [pc EXCEPT ![r] = "done"]
  /\ UNCHANGED <<variant, env, body, calls, late, listening, closing, exited,
                 atSignal>>

\* The upstream answers a call that axios has already aborted on its
\* timeout: nothing of the handler is left to run.
LateReply(r) ==
  /\ ~exited
  /\ outcome[r].kind = "timeout" /\ ~late[r]
  /\ late' = [late EXCEPT ![r] = TRUE]
  /\ UNCHANGED <<variant, env, pc, body, calls, resp, outcome, listening,
                 closing, exited, atSignal>>

\* The connection of an answered request ends.
ConnEnd(r) ==
  /\ ~exited
  /\ pc[r] = "done"
  /\ pc' = [pc EXCEPT ![r] = "closed"]
  /\ UNCHANGED <<variant, env, body, calls, resp, outcome, late, listening,
                 closing, exited, atSignal>>

InFlight == {r \in Reqs : pc[r] \in {"queued", "awaiting"}}

\* process.on('SIGTERM'): server.close(callback).  A second signal finds the
\* server closed and changes nothing.
Sigterm ==
  /\ listening /\ ~exited
  /\ listening' = FALSE
  /\ closing' = TRUE
  /\ atSignal' = InFlight
  /\ UNCHANGED <<variant, env, pc, body, calls, resp, outcome, late, exited>>

\* The signal handler as it would be with process.exit called at once.
CloseAtOnce == TRUE

\* server.close calls back once the server has no connection left.
CloseDrained == \A r \in Reqs : pc[r] \in {"idle", "closed"}

\* The callback of server.close: process.exit(0).
Exit ==
  /\ closing /\ ~exited
  /\ CloseDrained
  /\ exited' = TRUE
  /\ UNCHANGED <<variant, env, pc, body, calls, resp, outcome, late, listening,
                 closing, atSignal>>

Next ==
  \/ \E r \in Reqs, b \in FewBodies : Receive(r, b)
  \/ \E r \in Reqs : Start(r)
  \/ \E r \in Reqs, d \in FewReplies : Fulfil(r, d)
  \/ \E r \in Reqs : Reject(r, "timeout")
  \/ \E r \in Reqs : LateReply(r)
  \/ \E r \in Reqs : ConnEnd(r)
  \/ Sigterm
  \/ Exit

Spec == Init /\ [][Next]_vars

\* One request, over all the inputs.
NextHandler ==
  \/ \E b \in Bodies : Receive(1, b)
  \/ Start(1)
  \/ \E d \in Replies : Fulfil(1, d)
  \/ \E k \in Rejections : Reject(1, k)
  \/ LateReply(1)

SpecHandler == InitHandler /\ [][NextHandler]_vars

\* The promise of axios.post settles: with a reply, or with a rejection, at
\* the latest when its timeout fires.
Settle(r) ==
  \/ \E d \in Replies : Fulfil(r, d)
  \/ \E k \in Rejections : Reject(r, k)

\* One request, with what the runtime guarantees: the event loop runs a
\* queued handler, and the timeout of axios.post settles a pending call.
SpecHandlerFair ==
  /\ InitHandler
  /\ [][NextHandler]_vars
  /\ WF_vars(Start(1))
  /\ WF_vars(Settle(1))

(***************************************************************************)
(* The claims.                                                             *)
(***************************************************************************)
Answered(r) == resp[r].status # 0
Replied(r) == outcome[r].kind = "reply"
ReplySuccess(r) == Prop(outcome[r].data, "success")
ReplyScore(r) == Prop(outcome[r].data, "score")
ReplyErrors(r) == Prop(outcome[r].data, "errorCodes")

\* The upstream reported success=true and a score at or above the threshold.
ReportedPass(r) ==
  /\ Replied(r)
  /\ ReplySuccess(r) = Bool(TRUE)
  /\ ReplyScore(r).t = "number"
  /\ ReplyScore(r).n >= Threshold(variant)

\* C1: in every revision, a request is answered 200 if and only if its
\* upstream reply reported success=true and a score at or above the
\* threshold (a score equal to the threshold included); success=true alone
\* never suffices.
C1_AcceptedIffSuccessAndScore ==
  \A r \in Reqs : Answered(r) => (resp[r].status = 200 <=> ReportedPass(r))

\* C2: a request whose token is missing, is no string or is shorter than 10
\* characters is answered 400 with success=false and makes no outbound call.
C2_InvalidTokenNoCall ==
  \A r \in Reqs :
    (pc[r] \notin {"idle", "queued"} /\ InvalidTokenFormat(body[r].token)) =>
      /\ calls[r] = 0
      /\ resp[r].status = 400
      /\ ~resp[r].success

\* C3: a request with a valid token, while RECAPTCHA_SECRET is not
\* configured, is answered 500 with success=false (not 400) and makes no
\* outbound call.
C3_MissingSecretIs500 ==
  \A r \in Reqs :
    (pc[r] \notin {"idle", "queued"} /\ ~InvalidTokenFormat(body[r].token)
       /\ ~Truthy(env.RECAPTCHA_SECRET)) =>
      /\ calls[r] = 0
      /\ resp[r].status = 500
      /\ ~resp[r].success

\* C4: a request whose outbound call timed out or failed in transport is
\* answered 502 with success=false and retry=true, and a reply of the
\* upstream that arrives after the timeout leaves that answer as it is.
C4_UnavailableIs502Retry ==
  \A r \in Reqs :
    outcome[r].kind \in {"timeout", "network"} =>
      /\ resp[r].status = 502
      /\ ~resp[r].success
      /\ resp[r].retry = Bool(TRUE)

\* The reasons that say "verification failed".
FailedReasons == {"Verification failed", "reCAPTCHA verification failed"}

\* C5: an upstream reply with success=false is answered 403, success=false,
\* with a reason that says "verification failed" and with the error codes of
\* the upstream, the same elements in the same order (empty when none).
C5_FailurePassesErrorCodes ==
  \A r \in Reqs :
    (Replied(r) /\ ReplySuccess(r) = Bool(FALSE)) =>
      /\ resp[r].status = 403
      /\ ~resp[r].success
      /\ resp[r].reason \in FailedReasons
      /\ resp[r].errors = WithDefault(ReplyErrors(r), Arr(<<>>))

\* C6: an upstream reply with success=true and a score below the threshold
\* is answered 403 with a reason other than "verification failed", and the
\* body carries the score observed and the threshold.
C6_LowScoreReportsScoreAndThreshold ==
  \A r \in Reqs :
    (Replied(r) /\ ReplySuccess(r) = Bool(TRUE) /\ ReplyScore(r).t = "number"
       /\ ReplyScore(r).n < Threshold(variant)) =>
      /\ resp[r].status = 403
      /\ resp[r].reason \notin FailedReasons
      /\ resp[r].score = ReplyScore(r)
      /\ resp[r].requiredScore = Num(Threshold(variant))

\* C7: the redirect of an accepted request is the base redirect URL exactly
\* when no email payload came with the request; with a payload, the redirect
\* starts with the base and carries the payload character for character.
C7_RedirectCarriesPayloadUnchanged ==
  \A r \in Reqs :
    resp[r].status = 200 =>
      LET url == resp[r].redirect.s
          email == body[r].email
      IN IF Truthy(email)
         THEN /\ url # BaseRedirect(env)
              /\ Contains(url, email.s)
              /\ SubSeq(url, Len(url) - Len(email.s) + 1, Len(url)) = email.s
         ELSE url = BaseRedirect(env)

\* The reply lacks what the handler reads: the body is no object, success
\* is no boolean or score is no number.
Malformed(data) ==
  \/ data.kind # "object"
  \/ data.success.t # "boolean"
  \/ data.score.t # "number"

\* C8: a malformed upstream reply is answered 502, never 200: in particular
\* {success: true} without a score is not accepted.
C8_MalformedReplyFailsClosed ==
  \A r \in Reqs :
    (Replied(r) /\ Malformed(outcome[r].data)) => resp[r].status = 502

Opened == {r \in Reqs : pc[r] # "idle"}

\* C10: after SIGTERM no new connection is accepted, and the process exits
\* only when every request that was in flight at the signal has its
\* response.
C10_GracefulShutdown ==
  /\ [](exited => (closing /\ \A r \in atSignal : Answered(r)))
  /\ [][~listening => Opened' = Opened]_vars

\* The process has exited after a signal that found a request suspended on
\* its outbound call.
C10_Witness ==
  /\ exited
  /\ \E r \in atSignal : calls[r] = 1 /\ Answered(r)

\* What the handler answers to a request taken alone: to its body, and to
\* how its outbound call settled (kind "none": it made no call).
AnswerAlone(b, o) ==
  CASE o.kind = "none" -> Validate(variant, env, b)
    [] o.kind = "reply" -> Decide(variant, env, b, o.data)
    [] OTHER -> Catch(variant)

SansRedirect(response) == [response EXCEPT !.redirect = Undefined]

Rank(p) ==
  CASE p = "idle" -> 0
    [] p = "queued" -> 1
    [] p = "awaiting" -> 2
    [] p = "done" -> 3
    [] p = "closed" -> 4

ResponseStatuses == {200, 400, 403, 500, 502}

\* C13: a request goes forward only: it never steps back, makes at most one
\* outbound call (none again after a timeout or a transport failure), is
\* answered in the end, once, and with one of 200, 400, 403, 500, 502.
C13_LinearLifecycle ==
  /\ [](\A r \in Reqs :
          /\ calls[r] <= 1
          /\ Answered(r) <=> pc[r] \in {"done", "closed"}
          /\ Answered(r) => resp[r].status \in ResponseStatuses)
  /\ [][\A r \in Reqs :
          /\ Rank(pc'[r]) >= Rank(pc[r])
          /\ calls'[r] >= calls[r]
          /\ Answered(r) => resp'[r] = resp[r]]_vars
  /\ \A r \in Reqs : (pc[r] = "queued") ~> Answered(r)

\* A request whose one outbound call timed out has been answered, and the
\* upstream has replied after that.
C13_Witness ==
  \E r \in Reqs :
    /\ outcome[r].kind = "timeout" /\ late[r]
    /\ calls[r] = 1 /\ Answered(r)

\* The error texts about the token, and those about the configuration.
TokenErrors == {"Invalid token format", "Invalid token", "Token required"}
ConfigErrors ==
  {"Server configuration error", "Server error", "Server misconfigured"}

\* C14: the token is checked before the credential: a request with an
\* invalid token, while RECAPTCHA_SECRET is not configured, is answered 400
\* with the error about the token, and the missing credential is reported
\* only to requests with a valid token.
C14_TokenCheckedBeforeSecret ==
  \A r \in Reqs :
    /\ (Answered(r) /\ InvalidTokenFormat(body[r].token)
          /\ ~Truthy(env.RECAPTCHA_SECRET)) =>
         (resp[r].status = 400 /\ resp[r].error \in TokenErrors)
    /\ (Answered(r) /\ resp[r].error \in ConfigErrors) =>
         ~InvalidTokenFormat(body[r].token)

=============================================================================
